---- MODULE Spec2Model ----
(***************************************************************************)
(* Model of src/app.js: the layer store (`layers`), the markers attached   *)
(* to the map, the legend, and the Send handler with its three network     *)
(* suspension points.                                                      *)
(*                                                                         *)
(* JavaScript runs one task at a time: every action below is one task (a   *)
(* click handler, or the continuation that runs when a network response    *)
(* arrives) taken to its next `await` on the network.  A continuation that *)
(* is already queued as a microtask (the one after `await renderData`)     *)
(* runs before any other task, which the guard NoMicrotaskPending states.  *)
(***************************************************************************)
EXTENDS Integers, Sequences, FiniteSets, TLC

\* ------------------------------------------------------------------ bounds
MaxSubs == 2       \* Send clicks with a non-empty prompt
MaxLen == 2        \* features in one Overpass response
MaxClock == 1      \* Date.now() ranges over 0..MaxClock

\* ------------------------------------------------------------ JS helpers
RECURSIVE GCD(_, _)
GCD(a, b) == IF b = 0 THEN a ELSE GCD(b, a % b)

Abs(x) == IF x < 0 THEN -x ELSE x

\* A JS number a/b as a reduced fraction <<num, den>>; 0/0 is NaN.
NaN == <<0, 0>>

Quot(a, b) ==
    IF b = 0 THEN NaN
    ELSE LET g == GCD(Abs(a), b) IN <<a \div g, b \div g>>

Num(x) == <<x, 1>>

RECURSIVE SumAxis(_, _)
SumAxis(ring, axis) ==
    IF ring = <<>> THEN 0 ELSE ring[1][axis] + SumAxis(Tail(ring), axis)

Min(a, b) == IF a <= b THEN a ELSE b

\* ------------------------------------------------------------- taxonomy
\* CATEGORIES, in declaration order: <<key, color>>.
CATEGORIES == <<
    <<"restaurant", "#E76F51">>, <<"cafe", "#F4A261">>, <<"bar", "#E63946">>,
    <<"bakery", "#C19A6B">>, <<"school", "#3A86FF">>, <<"university", "#0077B6">>,
    <<"library", "#6B5B95">>, <<"museum", "#9D4EDD">>, <<"monument", "#9B59B6">>,
    <<"viewpoint", "#48CAE4">>, <<"park", "#2A9D8F">>, <<"garden", "#52B788">>,
    <<"dog_park", "#95D5B2">>, <<"playground", "#FFC300">>,
    <<"sports_centre", "#E63946">>, <<"pitch", "#7FFFD4">>,
    <<"hospital", "#E85D75">>, <<"pharmacy", "#06D6A0">>, <<"bank", "#FFB703">>,
    <<"supermarket", "#8338EC">>, <<"hairdresser", "#F72585">>,
    <<"hotel", "#FB5607">>, <<"hostel", "#F77F00">>, <<"station", "#2C3E50">>,
    <<"parking", "#6C757D">>, <<"poi", "#ADB5BD">> >>

CategoryKeys == {CATEGORIES[i][1] : i \in 1..Len(CATEGORIES)}

\* CATEGORIES[category]?.color || CATEGORIES.poi.color
CategoryColor(category) ==
    IF category \in CategoryKeys
    THEN CATEGORIES[CHOOSE i \in 1..Len(CATEGORIES) : CATEGORIES[i][1] = category][2]
    ELSE CATEGORIES[CHOOSE i \in 1..Len(CATEGORIES) : CATEGORIES[i][1] = "poi"][2]

\* The legend items initLegend creates: every key of CATEGORIES but 'poi'.
LegendCategories == {k \in CategoryKeys : k # "poi"}

\* getCategoryFromTags' tests in source order: <<tag key, tag value, category>>.
TagPredicates == <<
    <<"tourism", "museum", "museum">>, <<"tourism", "hotel", "hotel">>,
    <<"tourism", "hostel", "hostel">>, <<"tourism", "viewpoint", "viewpoint">>,
    <<"amenity", "cafe", "cafe">>, <<"amenity", "restaurant", "restaurant">>,
    <<"amenity", "hospital", "hospital">>, <<"amenity", "school", "school">>,
    <<"amenity", "pharmacy", "pharmacy">>, <<"amenity", "library", "library">>,
    <<"amenity", "bank", "bank">>, <<"amenity", "bar", "bar">>,
    <<"amenity", "university", "university">>, <<"amenity", "parking", "parking">>,
    <<"shop", "supermarket", "supermarket">>, <<"shop", "bakery", "bakery">>,
    <<"shop", "hairdresser", "hairdresser">>,
    <<"leisure", "park", "park">>, <<"leisure", "garden", "garden">>,
    <<"leisure", "sports_centre", "sports_centre">>, <<"leisure", "pitch", "pitch">>,
    <<"leisure", "playground", "playground">>, <<"leisure", "dog_park", "dog_park">>,
    <<"historic", "monument", "monument">>,
    <<"railway", "station", "station">> >>

\* JS values that may be null/undefined carry a kind; an object carries its
\* own key/value map (a function from its keys to strings).
JsNull == [kind |-> "null"]
JsObject(m) == [kind |-> "object", map |-> m]
EmptyMap == <<>>

\* tags.key === value
TagIs(m, key, value) == key \in DOMAIN m /\ m[key] = value

\* Faulty variant of getCategoryFromTags (for C19): the last matching test
\* wins instead of the first.
getCategoryFromTags_LastMatch(tags) ==
    IF tags.kind = "null" THEN "poi"
    ELSE LET hits == {i \in 1..Len(TagPredicates) :
                        TagIs(tags.map, TagPredicates[i][1], TagPredicates[i][2])}
         IN IF hits = {} THEN "poi"
            ELSE TagPredicates[CHOOSE i \in hits : \A j \in hits : i >= j][3]

getCategoryFromTags(tags) ==
    IF tags.kind = "null" THEN "poi"
    ELSE LET hits == {i \in 1..Len(TagPredicates) :
                        TagIs(tags.map, TagPredicates[i][1], TagPredicates[i][2])}
         IN IF hits = {} THEN "poi"
            ELSE TagPredicates[CHOOSE i \in hits : \A j \in hits : i <= j][3]

\* f.properties?.tags || f.properties || {}
\* properties is null, or an object with its own keys (`own`) and a `tags`
\* member that is undefined or an object.
FeatureTags(f) ==
    IF f.properties.kind = "null" THEN JsObject(EmptyMap)
    ELSE IF f.properties.tags.kind = "object" THEN f.properties.tags
    ELSE JsObject(f.properties.own)

\* ------------------------------------------------------------- geometry
\* getCentroid's result: a coordinate pair, null, or a TypeError thrown by
\* `coords.forEach` when the ring it reads is undefined.
Coords(lng, lat) == [kind |-> "coords", lngLat |-> <<lng, lat>>]
NoCoords == [kind |-> "null", lngLat |-> <<NaN, NaN>>]
CentroidThrows == [kind |-> "TypeError", lngLat |-> <<NaN, NaN>>]

\* The vertex average of one ring: [sumLng / coords.length, sumLat / coords.length]
RingMean(coords) ==
    Coords(Quot(SumAxis(coords, 1), Len(coords)), Quot(SumAxis(coords, 2), Len(coords)))

\* Faulty variant of getCentroid (for C20): the last ring of a Polygon and the
\* last polygon of a MultiPolygon are averaged instead of the first.
getCentroid_LastRing(geometry) ==
    IF geometry.type = "Point"
    THEN Coords(Num(geometry.coordinates[1]), Num(geometry.coordinates[2]))
    ELSE IF geometry.type = "Polygon"
    THEN IF Len(geometry.coordinates) = 0 THEN CentroidThrows
         ELSE RingMean(geometry.coordinates[Len(geometry.coordinates)])
    ELSE IF geometry.type = "MultiPolygon"
    THEN IF Len(geometry.coordinates) = 0 THEN CentroidThrows
         ELSE IF Len(geometry.coordinates[Len(geometry.coordinates)]) = 0 THEN CentroidThrows
         ELSE RingMean(geometry.coordinates[Len(geometry.coordinates)][1])
    ELSE NoCoords

getCentroid(geometry) ==
    IF geometry.type = "Point"
    THEN Coords(Num(geometry.coordinates[1]), Num(geometry.coordinates[2]))
    ELSE IF geometry.type = "Polygon"
    THEN IF Len(geometry.coordinates) = 0 THEN CentroidThrows
         ELSE RingMean(geometry.coordinates[1])
    ELSE IF geometry.type = "MultiPolygon"
    THEN IF Len(geometry.coordinates) = 0 THEN CentroidThrows
         ELSE IF Len(geometry.coordinates[1]) = 0 THEN CentroidThrows
         ELSE RingMean(geometry.coordinates[1][1])
    ELSE NoCoords

\* f.geometry is null in a feature without geometry.
NoGeometry == [type |-> "null", coordinates |-> <<>>]
HasGeometry(f) == f.geometry.type # "null"

\* maplibre's setLngLat builds a LngLat, whose constructor throws
\* "Invalid LngLat object" on a NaN longitude or latitude.
InvalidLngLat(lngLat) == lngLat[1] = NaN \/ lngLat[2] = NaN

\* ---------------------------------------------------- sample result data
Square == << <<0, 0>>, <<0, 2>>, <<2, 2>>, <<2, 0>> >>
Hole == << <<1, 1>>, <<1, 2>>, <<2, 1>> >>
Triangle == << <<0, 0>>, <<1, 2>>, <<2, 1>> >>
FarSquare == << <<4, 4>>, <<4, 6>>, <<6, 6>>, <<6, 4>> >>

Props(tagmap) == [kind |-> "object", tags |-> JsObject(tagmap), own |-> EmptyMap]
FlatProps(own) == [kind |-> "object", tags |-> JsNull, own |-> own]

Feature(type, coordinates, properties) ==
    [geometry |-> [type |-> type, coordinates |-> coordinates], properties |-> properties]

\* The features an Overpass response is drawn from.
Features == <<
    Feature("Point", <<1, 1>>, Props([amenity |-> "cafe", name |-> "Bar Luna"])),
    Feature("Polygon", <<Square, Hole>>, Props([tourism |-> "museum", amenity |-> "cafe"])),
    Feature("MultiPolygon", << <<Triangle>>, <<FarSquare>> >>, FlatProps([highway |-> "bus_stop"])),
    Feature("LineString", <<Square>>, [kind |-> "null"]),
    [geometry |-> NoGeometry, properties |-> Props(EmptyMap)],
    Feature("Polygon", << <<>> >>, Props([building |-> "yes"])),
    Feature("Polygon", <<>>, Props([building |-> "yes"])) >>

\* Responses of at most MaxLen features, as sequences of indices into Features.
FeatureSeqs == UNION {[1..n -> 1..Len(Features)] : n \in 0..MaxLen}
FeaturesOf(ix) == [i \in 1..Len(ix) |-> Features[ix[i]]]

\* The claims' notions, stated on the data alone:
\* placeable: geometry present and a non-null centroid;
\* unplaceable: no geometry, or a type other than Point/Polygon/MultiPolygon.
Placeable(f) == HasGeometry(f) /\ getCentroid(f.geometry).kind = "coords"
Unplaceable(f) ==
    ~HasGeometry(f) \/ f.geometry.type \notin {"Point", "Polygon", "MultiPolygon"}
CountOf(features, P(_)) == Cardinality({i \in 1..Len(features) : P(features[i])})

\* ---------------------------------------------------------------- state
VARIABLES
    layers,          \* the store: layerId -> [markers, name, category, color]
    mapMarkers,      \* the markers attached to the map (Marker.addTo / remove)
    legend,          \* legend item per category: [count, active, display]
    onclickAttached, \* whether the remove-category buttons have their handler
    mapView,         \* the map's camera: setCenter/setZoom, fitBounds
    subs,            \* the Send handler's invocations: [pc, placeName, msgs, nfeat, err]
    clock,           \* Date.now()
    last             \* history: the latest store operation and what it did

vars == <<layers, mapMarkers, legend, onclickAttached, mapView, subs, clock, last>>

Subs == 1..MaxSubs

\* ai.place_name as the agent returns it ("" would stand for a missing name).
AgentPlaces == {"Paris"}

\* res.status and res.statusText of an Overpass response that is not OK.
OverpassStatuses == {"504 Gateway Timeout"}

\* ------------------------------------------------------------------ chat
\* addMessage(sender, text): the text is kept as the parts of its template;
\* the chat is kept per submission (the projection of #chat on one handler
\* invocation).
Msg(sender, kind, n, parts) == [sender |-> sender, kind |-> kind, n |-> n, parts |-> parts]

\* ---------------------------------------------------------------- legend
RECURSIVE SumMarkers(_, _)
SumMarkers(ls, ids) ==
    IF ids = {} THEN 0
    ELSE LET id == CHOOSE x \in ids : TRUE
         IN Len(ls[id].markers) + SumMarkers(ls, ids \ {id})

\* categoryCounts[category] || 0
categoryCounts(ls, category) ==
    SumMarkers(ls, {id \in DOMAIN ls : ls[id].category = category})

\* initLegend: one item per category except 'poi', count 0, button hidden.
initLegend ==
    [c \in LegendCategories |-> [count |-> 0, active |-> FALSE, display |-> "none"]]

\* Faulty variant of updateLegend (for C15): the count is patched onto what
\* the item showed before instead of overwriting it.
updateLegend_Incremental(items, ls) ==
    [c \in DOMAIN items |->
        LET count == items[c].count + categoryCounts(ls, c)
        IN [count |-> count,
            active |-> (count > 0),
            display |-> IF count > 0 THEN "flex" ELSE "none"]]

\* updateLegend: every existing .legend-item gets its count, class and button
\* display from the store.
updateLegend(items, ls) ==
    [c \in DOMAIN items |->
        LET count == categoryCounts(ls, c)
        IN [count |-> count,
            active |-> (count > 0),
            display |-> IF count > 0 THEN "flex" ELSE "none"]]

\* ----------------------------------------------------------- layer store
NoLayers == [id \in {} |-> 0]

\* delete layers[id] for every id in ids
DeleteLayers(ls, ids) == [id \in (DOMAIN ls) \ ids |-> ls[id]]

\* layers[layerId] = layer
PutLayer(ls, layerId, layer) ==
    [id \in (DOMAIN ls) \cup {layerId} |-> IF id = layerId THEN layer ELSE ls[id]]

MarkersOf(ls, ids) == UNION {{ls[id].markers[k] : k \in 1..Len(ls[id].markers)} : id \in ids}

NoId == <<"", "", -1>>

\* The history record of a store operation: which one, its argument, how
\* many layers the store held before it and how many it removed, and (for
\* renderData) what it was given (n features, p placeable, u unplaceable),
\* whether its identifier was already in the store, its skip count and how
\* the call ended.
History(op, sub, cat, id, removed) ==
    [op |-> op, sub |-> sub, cat |-> cat, id |-> id, removed |-> removed,
     size |-> Cardinality(DOMAIN layers), replaced |-> FALSE,
     n |-> 0, p |-> 0, u |-> 0, skippedCount |-> 0, outcome |-> "returned"]

\* ------------------------------------------------------------ renderData
\* bounds.extend over the Point features; <<>> while the bounds are empty,
\* else <<west, south, east, north>>.
PointBounds(features) ==
    LET pts == {i \in 1..Len(features) : features[i].geometry.type = "Point"}
        lng(i) == features[i].geometry.coordinates[1]
        lat(i) == features[i].geometry.coordinates[2]
    IN IF pts = {} THEN <<>>
       ELSE << lng(CHOOSE i \in pts : \A j \in pts : lng(i) <= lng(j)),
               lat(CHOOSE i \in pts : \A j \in pts : lat(i) <= lat(j)),
               lng(CHOOSE i \in pts : \A j \in pts : lng(i) >= lng(j)),
               lat(CHOOSE i \in pts : \A j \in pts : lat(i) >= lat(j)) >>

\* How many features the category detection looks at.
DetectionPrefix == 10

\* Faulty variant of the detection (for C16): every feature is looked at.
detectedCategory_WholeResult(features) ==
    LET hits == {i \in 1..Len(features) :
                    getCategoryFromTags(FeatureTags(features[i])) # "poi"}
    IN IF hits = {} THEN "poi"
       ELSE getCategoryFromTags(FeatureTags(features[CHOOSE i \in hits : \A j \in hits : i <= j]))

\* The first non-'poi' classification among the first min(n, 10) features.
detectedCategory(features) ==
    LET hits == {i \in 1..Min(Len(features), DetectionPrefix) :
                    getCategoryFromTags(FeatureTags(features[i])) # "poi"}
    IN IF hits = {} THEN "poi"
       ELSE getCategoryFromTags(FeatureTags(features[CHOOSE i \in hits : \A j \in hits : i <= j]))

\* `${category}_${queryInfo.place_name || 'unknown'}_${Date.now()}`: the three
\* parts of the template.  No category key is another key followed by '_' and
\* the clock part is all digits, so the string determines the three parts.
LayerId(category, place_name, now) ==
    <<category, IF place_name = "" THEN "unknown" ELSE place_name, now>>

\* `${category} (${queryInfo.place_name || 'unknown'})`
LayerName(category, place_name) ==
    <<category, " (", IF place_name = "" THEN "unknown" ELSE place_name, ")">>

\* new maplibregl.Marker(...): a fresh object, named by the handler
\* invocation s that created it and its rank k among that invocation's markers.
Marker(s, k, lngLat) == [id |-> <<s, k>>, lngLat |-> lngLat]

\* One pass of features.forEach(f => ...) from feature i on.  acc is the
\* state the callback works on; once a callback throws, forEach stops.
RECURSIVE forEachFeature(_, _, _, _)
forEachFeature(features, i, s, acc) ==
    IF i > Len(features) \/ acc.threw THEN acc
    ELSE LET f == features[i]
             coords == getCentroid(f.geometry)
             skip == [acc EXCEPT !.skippedCount = @ + 1]
             marker == Marker(s, acc.pointCount + 1, coords.lngLat)
         IN forEachFeature(features, i + 1, s,
              IF ~HasGeometry(f) THEN skip
              ELSE IF coords.kind = "TypeError"
              THEN [acc EXCEPT !.threw = TRUE,
                               !.err = <<"Cannot read properties of undefined (reading 'forEach')">>]
              ELSE IF coords.kind = "null" THEN skip
              ELSE IF InvalidLngLat(coords.lngLat)
              THEN [acc EXCEPT !.pointCount = @ + 1, !.threw = TRUE,
                               !.err = <<"Invalid LngLat object: (NaN, NaN)">>]
              ELSE [acc EXCEPT !.pointCount = @ + 1,
                               !.markers = Append(@, marker),
                               !.map = @ \cup {marker}])

\* Faulty variant of renderData (for C27): the call gives way to other
\* handlers right after it has stored its layer entry, before any marker is
\* placed and before updateLegend.
renderData_YieldsEarly(ls, mm, items, features, place_name, now, s) ==
    IF Len(features) = 0
    THEN [layers |-> ls, map |-> mm, legend |-> items, updated |-> FALSE,
          outcome |-> "noresults", err |-> <<>>, layerId |-> NoId,
          pointCount |-> 0, skippedCount |-> 0, fit |-> <<>>]
    ELSE LET category == detectedCategory(features)
             layerId == LayerId(category, place_name, now)
         IN [layers |-> PutLayer(ls, layerId,
                          [markers |-> <<>>, name |-> LayerName(category, place_name),
                           category |-> category, color |-> CategoryColor(category)]),
             map |-> mm, legend |-> items, updated |-> FALSE,
             outcome |-> "returned", err |-> <<>>, layerId |-> layerId,
             pointCount |-> 0, skippedCount |-> 0, fit |-> PointBounds(features)]

\* Faulty variant of renderData (for C17): without the check for an empty
\* result, a layer without markers is stored for it.
renderData_EmptyLayer(ls, mm, items, features, place_name, now, s) ==
    [layers |-> PutLayer(ls, LayerId("poi", place_name, now),
                    [markers |-> <<>>, name |-> LayerName("poi", place_name),
                     category |-> "poi", color |-> CategoryColor("poi")]),
     map |-> mm, legend |-> items, updated |-> FALSE,
     outcome |-> "noresults", err |-> <<>>, layerId |-> NoId,
     pointCount |-> 0, skippedCount |-> 0, fit |-> <<>>]

\* renderData(geojson, styleDefinitions, queryInfo) called by invocation s at
\* clock value now, on store ls, map markers mm and legend items.  It has no
\* await, so it runs to its return or its throw within the caller's task.
renderData(ls, mm, items, features, place_name, now, s) ==
    IF Len(features) = 0
    THEN [layers |-> ls, map |-> mm, legend |-> items, updated |-> FALSE,
          outcome |-> "noresults", err |-> <<>>, layerId |-> NoId,
          pointCount |-> 0, skippedCount |-> 0, fit |-> <<>>]
    ELSE LET category == detectedCategory(features)
             color == CategoryColor(category)
             layerId == LayerId(category, place_name, now)
             acc == forEachFeature(features, 1, s,
                       [markers |-> <<>>, map |-> mm, pointCount |-> 0,
                        skippedCount |-> 0, threw |-> FALSE, err |-> <<>>])
             after == PutLayer(ls, layerId,
                       [markers |-> acc.markers, name |-> LayerName(category, place_name),
                        category |-> category, color |-> color])
         IN [layers |-> after, map |-> acc.map,
             legend |-> IF acc.threw THEN items ELSE updateLegend(items, after),
             updated |-> ~acc.threw,
             outcome |-> IF acc.threw THEN "threw" ELSE "returned",
             err |-> acc.err, layerId |-> layerId,
             pointCount |-> acc.pointCount, skippedCount |-> acc.skippedCount,
             fit |-> PointBounds(features)]

\* ----------------------------------------------------------------- Init
\* The state once DOMContentLoaded has run initLegend.
Init ==
    /\ layers = NoLayers
    /\ mapMarkers = {}
    /\ legend = initLegend
    /\ onclickAttached = FALSE
    /\ mapView = [center |-> "initial", zoom |-> Quot(3, 2), fit |-> <<>>]
    /\ subs = [s \in Subs |-> [pc |-> "idle", placeName |-> "", msgs |-> <<>>,
                               nfeat |-> 0, err |-> <<>>]]
    /\ clock = 0
    /\ last = History("none", 0, "", NoId, 0)

\* A continuation queued as a microtask runs before any other task.
NoMicrotaskPending == \A s \in Subs : subs[s].pc \notin {"rendered", "threw"}

\* Faulty variant of the catch block (for C9): the failure is swallowed, no
\* message is posted.
Caught_Silent(s, message) ==
    [subs EXCEPT ![s].pc = "done", ![s].err = message]

\* The catch block of send.onclick: addMessage("Agent", `Error: ${err.message}`).
Caught(s, message) ==
    [subs EXCEPT ![s].pc = "done", ![s].err = message,
                 ![s].msgs = Append(@, Msg("Agent", "Error", 0, message))]

\* --------------------------------------------------------- store handlers
\* Faulty variant of clearAllLayers (for C6): the updateLegend() call is
\* missing.
clearAllLayers_StaleLegend ==
    /\ NoMicrotaskPending
    /\ mapMarkers' = mapMarkers \ MarkersOf(layers, DOMAIN layers)
    /\ layers' = NoLayers
    /\ last' = History("clearAllLayers", 0, "", NoId, Cardinality(DOMAIN layers))
    /\ UNCHANGED <<legend, onclickAttached, mapView, subs, clock>>

\* clearAllLayers(), the Clear All button's handler.
clearAllLayers ==
    /\ NoMicrotaskPending
    /\ mapMarkers' = mapMarkers \ MarkersOf(layers, DOMAIN layers)
    /\ layers' = NoLayers
    /\ legend' = updateLegend(legend, layers')
    /\ onclickAttached' = TRUE
    /\ last' = History("clearAllLayers", 0, "", NoId, Cardinality(DOMAIN layers))
    /\ UNCHANGED <<mapView, subs, clock>>

\* Faulty variant of removeLayer (for C7): the entry is deleted without
\* m.remove() on its markers.
removeLayer_KeepsMarkers(layerId) ==
    /\ NoMicrotaskPending
    /\ IF layerId \in DOMAIN layers
       THEN /\ layers' = DeleteLayers(layers, {layerId})
            /\ legend' = updateLegend(legend, layers')
            /\ onclickAttached' = TRUE
            /\ UNCHANGED mapMarkers
       ELSE UNCHANGED <<mapMarkers, layers, legend, onclickAttached>>
    /\ last' = History("removeLayer", 0, "", layerId,
                       IF layerId \in DOMAIN layers THEN 1 ELSE 0)
    /\ UNCHANGED <<mapView, subs, clock>>

\* removeLayer(layerId)
removeLayer(layerId) ==
    /\ NoMicrotaskPending
    /\ IF layerId \in DOMAIN layers
       THEN /\ mapMarkers' = mapMarkers \ MarkersOf(layers, {layerId})
            /\ layers' = DeleteLayers(layers, {layerId})
            /\ legend' = updateLegend(legend, layers')
            /\ onclickAttached' = TRUE
       ELSE UNCHANGED <<mapMarkers, layers, legend, onclickAttached>>
    /\ last' = History("removeLayer", 0, "", layerId,
                       IF layerId \in DOMAIN layers THEN 1 ELSE 0)
    /\ UNCHANGED <<mapView, subs, clock>>

\* Faulty variant of removeCategoryLayers (for C5): the matching entries are
\* deleted without m.remove() on their markers.
removeCategoryLayers_KeepsMarkers(category) ==
    LET layerIdsToRemove == {id \in DOMAIN layers : layers[id].category = category}
    IN /\ layers' = DeleteLayers(layers, layerIdsToRemove)
       /\ legend' = updateLegend(legend, layers')
       /\ onclickAttached' = TRUE
       /\ last' = History("removeCategoryLayers", 0, category, NoId,
                          Cardinality(layerIdsToRemove))
       /\ UNCHANGED <<mapMarkers, mapView, subs, clock>>

\* removeCategoryLayers(category)
removeCategoryLayers(category) ==
    LET layerIdsToRemove == {id \in DOMAIN layers : layers[id].category = category}
    IN /\ mapMarkers' = mapMarkers \ MarkersOf(layers, layerIdsToRemove)
       /\ layers' = DeleteLayers(layers, layerIdsToRemove)
       /\ legend' = updateLegend(legend, layers')
       /\ onclickAttached' = TRUE
       /\ last' = History("removeCategoryLayers", 0, category, NoId,
                          Cardinality(layerIdsToRemove))
       /\ UNCHANGED <<mapView, subs, clock>>

\* A click on a legend item's remove button: btn.onclick, which updateLegend
\* attaches; the button can be clicked while it is displayed.
RemoveCategoryClick(category) ==
    /\ NoMicrotaskPending
    /\ onclickAttached
    /\ legend[category].display = "flex"
    /\ removeCategoryLayers(category)

\* The identifiers removeLayer is called with: every one in the store, and
\* one that is absent from it.
RemoveLayerArgs == (DOMAIN layers) \cup {LayerId("cafe", "Madrid", 0)}

\* ------------------------------------------------------------ send.onclick
\* A click on Send with a non-empty prompt: addMessage("You", prompt), then
\* the handler suspends in getAIQuery's fetch.  Invocations are numbered in
\* click order.
SendClick(s) ==
    /\ NoMicrotaskPending
    /\ subs[s].pc = "idle"
    /\ \A t \in Subs : t < s => subs[t].pc # "idle"
    /\ subs' = [subs EXCEPT ![s].pc = "agent",
                            ![s].msgs = Append(@, Msg("You", "prompt", 0, <<"prompt">>))]
    /\ UNCHANGED <<layers, mapMarkers, legend, onclickAttached, mapView, clock, last>>

\* getAIQuery resolves: "Looking for ...", then the handler suspends in
\* getBboxFromPlace's fetch.
AgentOk(s, place_name) ==
    /\ NoMicrotaskPending
    /\ subs[s].pc = "agent"
    /\ subs' = [subs EXCEPT
          ![s].pc = "geocoder",
          ![s].placeName = IF place_name = "" THEN "Madrid" ELSE place_name,
          ![s].msgs = Append(@, Msg("Agent", "Looking", 0,
                <<"Looking for ", IF place_name = "" THEN "location" ELSE place_name, "...">>))]
    /\ UNCHANGED <<layers, mapMarkers, legend, onclickAttached, mapView, clock, last>>

\* getAIQuery throws: the response is not OK.
AgentFail(s, message) ==
    /\ NoMicrotaskPending
    /\ subs[s].pc = "agent"
    /\ subs' = Caught(s, message)
    /\ UNCHANGED <<layers, mapMarkers, legend, onclickAttached, mapView, clock, last>>

AgentErrors == {<<"AI backend error">>}

\* getBboxFromPlace resolves with a bbox and a center: "Running query...",
\* then the handler suspends in fetchOverpass's fetch.
GeocoderOk(s) ==
    /\ NoMicrotaskPending
    /\ subs[s].pc = "geocoder"
    /\ subs' = [subs EXCEPT
          ![s].pc = "overpass",
          ![s].msgs = Append(@, Msg("Agent", "Running", 0, <<"Running query...">>))]
    /\ UNCHANGED <<layers, mapMarkers, legend, onclickAttached, mapView, clock, last>>

\* getBboxFromPlace throws: response not OK, or no match (data.length === 0).
GeocoderErrors(placeName) ==
    {<<"Nominatim API error">>, <<"Place \"", placeName, "\" not found">>}

GeocoderFail(s, message) ==
    /\ NoMicrotaskPending
    /\ subs[s].pc = "geocoder"
    /\ subs' = Caught(s, message)
    /\ UNCHANGED <<layers, mapMarkers, legend, onclickAttached, mapView, clock, last>>

\* fetchOverpass throws: response not OK.
OverpassErrors ==
    {<<"Overpass API error: ", st>> : st \in OverpassStatuses}

OverpassFail(s, message) ==
    /\ NoMicrotaskPending
    /\ subs[s].pc = "overpass"
    /\ subs' = Caught(s, message)
    /\ UNCHANGED <<layers, mapMarkers, legend, onclickAttached, mapView, clock, last>>

\* fetchOverpass resolves with geojson: map.setCenter(center), map.setZoom(12)
\* and the call of renderData, up to the handler's `await` on its promise.
OverpassOk(s, features) ==
    /\ NoMicrotaskPending
    /\ subs[s].pc = "overpass"
    /\ LET r == renderData(layers, mapMarkers, legend, features,
                           subs[s].placeName, clock, s)
       IN /\ layers' = r.layers
          /\ mapMarkers' = r.map
          /\ legend' = r.legend
          /\ onclickAttached' = (onclickAttached \/ r.updated)
          /\ mapView' = [center |-> subs[s].placeName, zoom |-> Num(12), fit |-> r.fit]
          /\ subs' = [subs EXCEPT
                ![s].pc = IF r.outcome = "threw" THEN "threw" ELSE "rendered",
                ![s].nfeat = Len(features),
                ![s].err = r.err,
                ![s].msgs = IF r.outcome = "noresults"
                            THEN Append(@, Msg("Agent", "NoResults", 0, <<"No results found.">>))
                            ELSE @]
          /\ last' = [History("renderData", s, "", r.layerId, 0) EXCEPT
                !.replaced = (r.layerId \in DOMAIN layers),
                !.n = Len(features),
                !.p = CountOf(features, Placeable),
                !.u = CountOf(features, Unplaceable),
                !.skippedCount = r.skippedCount,
                !.outcome = r.outcome]
    /\ UNCHANGED clock

\* Faulty variant of the handler's last statement (for C28): the handler
\* ends without its Found message.
Found_NoMessage(s) ==
    /\ subs[s].pc = "rendered"
    /\ subs' = [subs EXCEPT ![s].pc = "done"]
    /\ UNCHANGED <<layers, mapMarkers, legend, onclickAttached, mapView, clock, last>>

\* renderData's promise is fulfilled: `Found ${geojson.features.length} results`.
Found(s) ==
    /\ subs[s].pc = "rendered"
    /\ subs' = [subs EXCEPT
          ![s].pc = "done",
          ![s].msgs = Append(@, Msg("Agent", "Found", subs[s].nfeat, <<"Found ", " results">>))]
    /\ UNCHANGED <<layers, mapMarkers, legend, onclickAttached, mapView, clock, last>>

\* renderData's promise is rejected: the catch block reports err.message.
CatchRender(s) ==
    /\ subs[s].pc = "threw"
    /\ subs' = Caught(s, subs[s].err)
    /\ UNCHANGED <<layers, mapMarkers, legend, onclickAttached, mapView, clock, last>>

\* Date.now() advances.
Tick ==
    /\ clock < MaxClock
    /\ clock' = clock + 1
    /\ UNCHANGED <<layers, mapMarkers, legend, onclickAttached, mapView, subs, last>>

Next ==
    \/ \E s \in Subs : SendClick(s)
    \/ \E s \in Subs, place_name \in AgentPlaces : AgentOk(s, place_name)
    \/ \E s \in Subs, message \in AgentErrors : AgentFail(s, message)
    \/ \E s \in Subs : GeocoderOk(s)
    \/ \E s \in Subs : \E message \in GeocoderErrors(subs[s].placeName) : GeocoderFail(s, message)
    \/ \E s \in Subs, message \in OverpassErrors : OverpassFail(s, message)
    \/ \E s \in Subs, ix \in FeatureSeqs : OverpassOk(s, FeaturesOf(ix))
    \/ \E s \in Subs : Found(s)
    \/ \E s \in Subs : CatchRender(s)
    \/ clearAllLayers
    \/ \E layerId \in RemoveLayerArgs : removeLayer(layerId)
    \/ \E category \in LegendCategories : RemoveCategoryClick(category)
    \/ Tick

Spec == Init /\ [][Next]_vars

\* The specification for liveness: the steps of Next, with Overpass responses
\* of at most one feature (an empty result, one that renders, one that makes
\* the render throw), under the assumption that every network call
\* eventually resolves or rejects and that a queued continuation runs.
LiveFeatureSeqs == {ix \in FeatureSeqs : Len(ix) <= 1}

LiveNext ==
    \/ \E s \in Subs : SendClick(s)
    \/ \E s \in Subs, place_name \in AgentPlaces : AgentOk(s, place_name)
    \/ \E s \in Subs, message \in AgentErrors : AgentFail(s, message)
    \/ \E s \in Subs : GeocoderOk(s)
    \/ \E s \in Subs : \E message \in GeocoderErrors(subs[s].placeName) : GeocoderFail(s, message)
    \/ \E s \in Subs, message \in OverpassErrors : OverpassFail(s, message)
    \/ \E s \in Subs, ix \in LiveFeatureSeqs : OverpassOk(s, FeaturesOf(ix))
    \/ \E s \in Subs : Found(s)
    \/ \E s \in Subs : CatchRender(s)
    \/ clearAllLayers
    \/ \E layerId \in RemoveLayerArgs : removeLayer(layerId)
    \/ \E category \in LegendCategories : RemoveCategoryClick(category)
    \/ Tick

Responses(s) ==
    /\ WF_vars((\E place_name \in AgentPlaces : AgentOk(s, place_name))
                  \/ (\E message \in AgentErrors : AgentFail(s, message)))
    /\ WF_vars(GeocoderOk(s)
                  \/ (\E message \in GeocoderErrors(subs[s].placeName) : GeocoderFail(s, message)))
    /\ WF_vars((\E ix \in LiveFeatureSeqs : OverpassOk(s, FeaturesOf(ix)))
                  \/ (\E message \in OverpassErrors : OverpassFail(s, message)))
    /\ WF_vars(Found(s))
    /\ WF_vars(CatchRender(s))

LiveSpec == Init /\ [][LiveNext]_vars /\ \A s \in Subs : Responses(s)

\* ------------------------------------------- the functions, one call each
\* getCategoryFromTags, getCentroid and renderData applied once to an
\* argument drawn from the sets below, on a page that has just loaded.  Here
\* `last` holds the call: the function, its argument, and its result once it
\* has returned.
MaxScan == 12      \* features in a result whose category is detected

\* One tag object per test of getCategoryFromTags, one per pair of tests on
\* different keys, and objects that satisfy no test.
TagMaps ==
    {[k \in {TagPredicates[i][1]} |-> TagPredicates[i][2]] : i \in 1..Len(TagPredicates)}
    \cup {[k \in {TagPredicates[i][1], TagPredicates[j][1]} |->
              IF k = TagPredicates[i][1] THEN TagPredicates[i][2] ELSE TagPredicates[j][2]] :
            i, j \in 1..Len(TagPredicates)}
    \cup {EmptyMap, [amenity |-> "fuel"], [highway |-> "bus_stop"],
          [tourism |-> "cafe"], [name |-> "museum"], [amenity |-> "museum", shop |-> "cafe"]}

TagInputs == {JsNull} \cup {JsObject(m) : m \in TagMaps}

\* A ring whose vertex average is not a whole number.
Wedge == << <<0, 0>>, <<1, 0>>, <<0, 1>> >>

Geometry(type, coordinates) == [type |-> type, coordinates |-> coordinates]

\* The geometries getCentroid is applied to.
GeometryInputs == <<
    Geometry("Point", <<1, 1>>),
    Geometry("Point", <<2, 0>>),
    Geometry("Polygon", <<Square>>),
    Geometry("Polygon", <<Square, Hole>>),
    Geometry("Polygon", <<Wedge, Hole>>),
    Geometry("MultiPolygon", << <<Triangle>>, <<FarSquare>> >>),
    Geometry("MultiPolygon", << <<Square, Hole>>, <<FarSquare>> >>),
    Geometry("MultiPolygon", << <<Wedge>> >>),
    Geometry("LineString", <<Square>>),
    Geometry("MultiPoint", <<Square>>),
    Geometry("GeometryCollection", <<>>),
    Geometry("Polygon", << <<>> >>),
    Geometry("Polygon", << <<>>, Hole >>),
    Geometry("MultiPolygon", << << <<>> >> >>),
    Geometry("MultiPolygon", << << <<>> >>, <<FarSquare>> >>),
    Geometry("Polygon", <<>>),
    Geometry("MultiPolygon", <<>>),
    Geometry("MultiPolygon", << <<>> >>) >>

\* A result of n features for the category detection: k features that
\* classify to 'poi' (with and without properties), then a cafe, then museums.
ScanFeatures(k, n) ==
    [i \in 1..n |->
        IF i <= k THEN (IF i % 2 = 1 THEN Features[3] ELSE Features[4])
        ELSE IF i = k + 1 THEN Features[1]
        ELSE Features[2]]

ScanInputs == {kn \in (0..MaxScan) \X (0..MaxScan) : kn[1] <= kn[2]}

\* Features for results that hold a ring without vertices.
RingFeatures == <<
    Feature("Point", <<1, 1>>, Props([amenity |-> "cafe"])),
    Feature("LineString", <<Square>>, Props([amenity |-> "cafe"])),
    Feature("Polygon", <<Square, Hole>>, Props([amenity |-> "cafe"])),
    Feature("Polygon", << <<>> >>, Props([amenity |-> "cafe"])),
    Feature("MultiPolygon", << << <<>> >>, <<FarSquare>> >>, Props([amenity |-> "cafe"])) >>

RingInputs == UNION {[1..n -> 1..Len(RingFeatures)] : n \in 1..MaxLen}
RingFeaturesOf(ix) == [i \in 1..Len(ix) |-> RingFeatures[ix[i]]]

\* A call that has not run yet.
Call(fn, arg) == [fn |-> fn, arg |-> arg, returned |-> FALSE, result |-> <<>>]

FnInit ==
    /\ layers = NoLayers
    /\ mapMarkers = {}
    /\ legend = initLegend
    /\ onclickAttached = FALSE
    /\ mapView = [center |-> "initial", zoom |-> Quot(3, 2), fit |-> <<>>]
    /\ subs = [s \in Subs |-> [pc |-> "idle", placeName |-> "", msgs |-> <<>>,
                               nfeat |-> 0, err |-> <<>>]]
    /\ clock = 0
    /\ \/ \E tags \in TagInputs : last = Call("getCategoryFromTags", tags)
       \/ \E i \in 1..Len(GeometryInputs) : last = Call("getCentroid", GeometryInputs[i])
       \/ \E kn \in ScanInputs : last = Call("renderData", ScanFeatures(kn[1], kn[2]))
       \/ \E ix \in RingInputs : last = Call("renderData", RingFeaturesOf(ix))

\* getCategoryFromTags(tags)
CallGetCategoryFromTags ==
    /\ last.fn = "getCategoryFromTags" /\ ~last.returned
    /\ last' = [last EXCEPT !.returned = TRUE, !.result = getCategoryFromTags(last.arg)]
    /\ UNCHANGED <<layers, mapMarkers, legend, onclickAttached, mapView, subs, clock>>

\* getCentroid(geometry)
CallGetCentroid ==
    /\ last.fn = "getCentroid" /\ ~last.returned
    /\ last' = [last EXCEPT !.returned = TRUE, !.result = getCentroid(last.arg)]
    /\ UNCHANGED <<layers, mapMarkers, legend, onclickAttached, mapView, subs, clock>>

\* renderData(geojson, styleDefinitions, { place_name: "Paris" })
CallRenderData ==
    /\ last.fn = "renderData" /\ ~last.returned
    /\ LET r == renderData(layers, mapMarkers, legend, last.arg, "Paris", clock, 1)
       IN /\ layers' = r.layers
          /\ mapMarkers' = r.map
          /\ legend' = r.legend
          /\ onclickAttached' = (onclickAttached \/ r.updated)
          /\ mapView' = [mapView EXCEPT !.fit = r.fit]
          /\ last' = [last EXCEPT !.returned = TRUE,
                         !.result = [outcome |-> r.outcome, layerId |-> r.layerId,
                                     pointCount |-> r.pointCount,
                                     skippedCount |-> r.skippedCount]]
    /\ UNCHANGED <<subs, clock>>

FnNext == CallGetCategoryFromTags \/ CallGetCentroid \/ CallRenderData

FnSpec == FnInit /\ [][FnNext]_vars

\* ---------------------------------------------------- the Overpass query
\* A query string is a sequence of tokens: a token is a piece of text that
\* the tests and replacements of fetchOverpass and send.onclick either match
\* whole or not at all.
MaxTokens == 3     \* tokens in a raw query drawn token by token

Whitespace == {" ", "\n"}

\* The tokens that contain the text '[timeout:' (the last one is a quoted
\* tag value).
TimeoutTexts == {"[timeout:25]", "[timeout:60]", "\"[timeout:\""}

Tokens ==
    {"[out:json]", "[timeout:25]", "[timeout:60]", ";", "out body", "out geom",
     "out geom 500", "(", ")", " ", "\n", "node", "{{bbox}}"}

\* query.trim()
RECURSIVE trimStart(_)
trimStart(q) ==
    IF q # <<>> /\ q[1] \in Whitespace THEN trimStart(Tail(q)) ELSE q

RECURSIVE trimEnd(_)
trimEnd(q) ==
    IF q # <<>> /\ q[Len(q)] \in Whitespace THEN trimEnd(SubSeq(q, 1, Len(q) - 1)) ELSE q

trim(q) == trimEnd(trimStart(q))

\* q.startsWith(token)
startsWith(q, token) == Len(q) >= 1 /\ q[1] = token

\* q ends with the tokens of suffix
endsWith(q, suffix) ==
    /\ Len(q) >= Len(suffix)
    /\ SubSeq(q, Len(q) - Len(suffix) + 1, Len(q)) = suffix

\* q without its last n tokens
dropLast(q, n) == SubSeq(q, 1, Len(q) - n)

\* q.includes('[timeout:')
includesTimeout(q) == \E i \in 1..Len(q) : q[i] \in TimeoutTexts

\* q.replace(token, replacement): the first occurrence only
replaceFirst(q, token, replacement) ==
    LET at == {i \in 1..Len(q) : q[i] = token}
    IN IF at = {} THEN q
       ELSE LET i == CHOOSE k \in at : \A j \in at : k <= j
            IN SubSeq(q, 1, i - 1) \o replacement \o SubSeq(q, i + 1, Len(q))

\* q.replaceAll(token, replacement)
RECURSIVE replaceAll(_, _, _)
replaceAll(q, token, replacement) ==
    IF q = <<>> THEN <<>>
    ELSE (IF q[1] = token THEN replacement ELSE <<q[1]>>)
         \o replaceAll(Tail(q), token, replacement)

\* Faulty variant of the directive step (for C22): the directive is prepended
\* without looking at how the query begins.
withDirective_AlwaysPrepends(q) == <<"[out:json]", "[timeout:25]", ";">> \o q

\* Add [out:json] with timeout if not present.
withDirective(q) ==
    IF ~startsWith(q, "[out:json]") THEN <<"[out:json]", "[timeout:25]", ";">> \o q
    ELSE IF ~includesTimeout(q)
    THEN replaceFirst(q, "[out:json]", <<"[out:json]", "[timeout:25]">>)
    ELSE q

\* q.replace(/;out body;?$/g, ';out geom;')
withGeometry(q) ==
    IF endsWith(q, <<";", "out body", ";">>) THEN dropLast(q, 3) \o <<";", "out geom", ";">>
    ELSE IF endsWith(q, <<";", "out body">>) THEN dropLast(q, 2) \o <<";", "out geom", ";">>
    ELSE q

\* q.match(/\);\s*\)/): ');' and, after any whitespace, ')'
RECURSIVE skipWhitespace(_, _)
skipWhitespace(q, i) ==
    IF i <= Len(q) /\ q[i] \in Whitespace THEN skipWhitespace(q, i + 1) ELSE i

matchesNestedEnd(q) ==
    \E i \in 1..Len(q) :
        /\ q[i] = ")"
        /\ i + 1 <= Len(q) /\ q[i + 1] = ";"
        /\ LET j == skipWhitespace(q, i + 2) IN j <= Len(q) /\ q[j] = ")"

\* Add result limit if not present: q.replace(/\);$/, ');out geom 500;')
withLimit(q) ==
    IF matchesNestedEnd(q) THEN q
    ELSE IF endsWith(q, <<")", ";">>) THEN q \o <<"out geom 500", ";">>
    ELSE q

\* fetchOverpass's fullQuery after each of its steps; `full` is the body of
\* the POST request.
fullQuery(query) ==
    LET trimmed == trim(query)
        directed == withDirective(trimmed)
        geom == withGeometry(directed)
    IN [trimmed |-> trimmed, directed |-> directed, geom |-> geom, full |-> withLimit(geom)]

\* Faulty variant of the bbox string (for C25): the geocoder's order is kept.
bboxOf_GeocoderOrder(boundingbox) ==
    <<boundingbox[1], ",", boundingbox[2], ",", boundingbox[3], ",", boundingbox[4]>>

\* getBboxFromPlace's bbox: data[0].boundingbox is [minlat, maxlat, minlon,
\* maxlon]; `${bbox[0]},${bbox[2]},${bbox[1]},${bbox[3]}`.
bboxOf(boundingbox) ==
    <<boundingbox[1], ",", boundingbox[3], ",", boundingbox[2], ",", boundingbox[4]>>

\* ai.query.replaceAll("{{bbox}}", bbox)
substituteBbox(query, boundingbox) == replaceAll(query, "{{bbox}}", bboxOf(boundingbox))

\* Raw queries put together from parts: leading whitespace, a settings
\* statement, statements, and an output statement.
QueryLeads == {<<>>, <<" ">>}

QueryHeaders ==
    {<<>>, <<"[out:json]", ";">>, <<"[out:json]", "[timeout:60]", ";">>,
     <<"[timeout:60]", "[out:json]", ";">>}

QueryBodies ==
    {<<"node", "(", "{{bbox}}", ")", ";">>,
     <<"(", "node", "(", "{{bbox}}", ")", ";", "node", "(", "{{bbox}}", ")", ";", ")", ";">>,
     <<"(", "node", "(", "{{bbox}}", ")", ";", "\n", ")", ";">>,
     <<"node", "\"[timeout:\"", "(", "{{bbox}}", ")", ";">>}

QueryTails ==
    {<<>>, <<"out body", ";">>, <<"out body">>, <<"\n", "out body", ";">>,
     <<"out body", ";", "\n">>, <<"out geom", ";">>, <<"out geom 500", ";">>}

BuiltQueries ==
    {l \o h \o b \o t : l \in QueryLeads, h \in QueryHeaders, b \in QueryBodies, t \in QueryTails}

\* Raw queries of at most MaxTokens tokens, drawn token by token.
ShortQueries == UNION {[1..n -> Tokens] : n \in 0..MaxTokens}

\* data[0].boundingbox as Nominatim answers it: four numbers as strings.
BoundingBoxes == {<<"48.8", "48.9", "2.2", "2.4">>, <<"-1", "1", "-2", "2">>}

QueryInit ==
    /\ layers = NoLayers
    /\ mapMarkers = {}
    /\ legend = initLegend
    /\ onclickAttached = FALSE
    /\ mapView = [center |-> "initial", zoom |-> Quot(3, 2), fit |-> <<>>]
    /\ subs = [s \in Subs |-> [pc |-> "idle", placeName |-> "", msgs |-> <<>>,
                               nfeat |-> 0, err |-> <<>>]]
    /\ clock = 0
    /\ \/ \E query \in BuiltQueries \cup ShortQueries : last = Call("fetchOverpass", query)
       \/ \E query \in BuiltQueries, boundingbox \in BoundingBoxes :
             last = Call("replaceAll", [query |-> query, boundingbox |-> boundingbox])

\* fetchOverpass(query), up to the body it posts.
CallFetchOverpass ==
    /\ last.fn = "fetchOverpass" /\ ~last.returned
    /\ last' = [last EXCEPT !.returned = TRUE, !.result = fullQuery(last.arg)]
    /\ UNCHANGED <<layers, mapMarkers, legend, onclickAttached, mapView, subs, clock>>

\* getBboxFromPlace's return value and ai.query.replaceAll("{{bbox}}", bbox).
CallReplaceAll ==
    /\ last.fn = "replaceAll" /\ ~last.returned
    /\ last' = [last EXCEPT !.returned = TRUE,
                   !.result = substituteBbox(last.arg.query, last.arg.boundingbox)]
    /\ UNCHANGED <<layers, mapMarkers, legend, onclickAttached, mapView, subs, clock>>

QueryNext == CallFetchOverpass \/ CallReplaceAll

QuerySpec == QueryInit /\ [][QueryNext]_vars

\* ============================================================== claims
\* The per-category marker sum of a store, counted marker by marker.
MarkerSum(ls, c) ==
    Cardinality(UNION {{<<id, k>> : k \in 1..Len(ls[id].markers)} :
                          id \in {j \in DOMAIN ls : ls[j].category = c}})

LegendMatches(items, ls) == \A c \in DOMAIN items : items[c].count = MarkerSum(ls, c)

FinalMsg(s) == subs[s].msgs[Len(subs[s].msgs)]

\* C1: whenever renderData creates a layer, its identifier is not yet in the
\* store, so a render never replaces an existing entry.
C1_FreshLayerId ==
    (last.op = "renderData" /\ last.outcome # "noresults") => ~last.replaced

\* C2: after every completed store operation (renderData on a non-empty
\* result, removeLayer, removeCategoryLayers, clearAllLayers) every legend
\* item's count is the marker sum of its category's layers.
C2_LegendCounts ==
    (\/ last.op \in {"removeLayer", "removeCategoryLayers", "clearAllLayers"}
     \/ (last.op = "renderData" /\ last.outcome = "returned"))
    => LegendMatches(legend, layers)

\* C3: one renderData call on a non-empty result with p placeable and u
\* unplaceable elements adds exactly one layer, which owns exactly p markers,
\* and skips u elements.
C3_OneLayerPMarkers ==
    (last.op = "renderData" /\ last.n > 0)
    => /\ Cardinality(DOMAIN layers) = last.size + 1
       /\ last.id \in DOMAIN layers
       /\ Len(layers[last.id].markers) = last.p
       /\ last.skippedCount = last.u

\* C4: after a submission whose result has p placeable and u > 0 unplaceable
\* elements, the final "Found N results" message has N = p.
C4_FoundCountsPlaced ==
    \A s \in Subs :
        (/\ last.op = "renderData" /\ last.sub = s /\ last.u > 0
         /\ subs[s].pc = "done" /\ FinalMsg(s).kind = "Found")
        => FinalMsg(s).n = last.p

\* The markers a layer owns, as a set.
Owned(ls, id) == {ls[id].markers[k] : k \in 1..Len(ls[id].markers)}

\* C5: removeCategoryLayers(c) removes every layer of category c and detaches
\* their markers, leaves every other layer and its markers as they were, and
\* leaves category c with count 0 and an inactive legend item.
C5_RemoveCategory ==
    [][\A c \in LegendCategories :
        RemoveCategoryClick(c) =>
            /\ \A id \in DOMAIN layers :
                  IF layers[id].category = c
                  THEN id \notin DOMAIN layers' /\ Owned(layers, id) \cap mapMarkers' = {}
                  ELSE /\ id \in DOMAIN layers'
                       /\ layers'[id] = layers[id]
                       /\ Owned(layers, id) \cap mapMarkers' = Owned(layers, id) \cap mapMarkers
            /\ DOMAIN layers' \subseteq DOMAIN layers
            /\ MarkerSum(layers', c) = 0
            /\ legend'[c] = [count |-> 0, active |-> FALSE, display |-> "none"]
      ]_vars

\* C5 witness: a category was removed (at least one layer of it) while a
\* layer of another category, with a marker on the map, stays.
C5_Witness ==
    /\ last.op = "removeCategoryLayers"
    /\ last.removed >= 1
    /\ \E id \in DOMAIN layers :
          layers[id].category # last.cat /\ Owned(layers, id) \cap mapMarkers # {}

\* C6: after clearAllLayers() the store is empty, every marker a layer owned
\* is off the map, and every legend item is inactive with count 0.
C6_ClearAll ==
    [][clearAllLayers =>
            /\ DOMAIN layers' = {}
            /\ \A id \in DOMAIN layers : Owned(layers, id) \cap mapMarkers' = {}
            /\ \A c \in LegendCategories :
                  /\ MarkerSum(layers', c) = 0
                  /\ legend'[c] = [count |-> 0, active |-> FALSE, display |-> "none"]
      ]_vars

\* C6 witness: Clear All has removed two layers, one of which showed in the
\* legend before, and the store is empty.
C6_Witness ==
    /\ last.op = "clearAllLayers"
    /\ last.removed >= 2
    /\ DOMAIN layers = {}
    /\ \A c \in LegendCategories : legend[c].count = 0

\* C7: removeLayer(id) with id in the store detaches that layer's markers and
\* deletes exactly that entry, all other layers and markers unchanged; with
\* id absent, the store, the map's markers and the legend are unchanged.
C7_RemoveLayer ==
    [][\A id \in RemoveLayerArgs :
        removeLayer(id) =>
            IF id \in DOMAIN layers
            THEN /\ DOMAIN layers' = (DOMAIN layers) \ {id}
                 /\ Owned(layers, id) \cap mapMarkers' = {}
                 /\ \A j \in DOMAIN layers' :
                       /\ layers'[j] = layers[j]
                       /\ Owned(layers, j) \cap mapMarkers' = Owned(layers, j) \cap mapMarkers
                 /\ mapMarkers' \subseteq mapMarkers
            ELSE UNCHANGED <<layers, mapMarkers, legend>>
      ]_vars

\* C7 witness: one layer was removed by its identifier while another layer,
\* with a marker on the map, stays.
C7_Witness ==
    /\ last.op = "removeLayer"
    /\ last.removed = 1
    /\ last.id \notin DOMAIN layers
    /\ \E id \in DOMAIN layers : Owned(layers, id) \cap mapMarkers # {}

\* C8: a renderData call that returns on a non-empty result keeps every layer
\* that was in the store, with the same category, name, colour and markers,
\* and detaches none of their markers.
C8_RenderKeepsLayers ==
    [][\A s \in Subs :
        (subs[s].pc = "overpass" /\ subs'[s].pc = "rendered" /\ subs'[s].nfeat > 0) =>
            \A id \in DOMAIN layers :
                /\ id \in DOMAIN layers'
                /\ layers'[id] = layers[id]
                /\ Owned(layers, id) \cap mapMarkers \subseteq mapMarkers'
      ]_vars

\* The message each failure before rendering carries, by where the handler
\* was suspended.
FailureMessages(pc, placeName) ==
    IF pc = "agent" THEN {<<"AI backend error">>}
    ELSE IF pc = "geocoder"
    THEN {<<"Nominatim API error">>, <<"Place \"", placeName, "\" not found">>}
    ELSE {<<"Overpass API error: ", "504 Gateway Timeout">>}

\* C9: a submission that fails before rendering (agent, geocoder or spatial
\* database request not OK, or no match for the place) posts one Error
\* message carrying the underlying message and creates no layer; neither that
\* step nor any earlier step of the submission changes the store, the markers
\* on the map or the legend.
C9_FailureIsLocal ==
    [][\A s \in Subs :
        /\ (subs[s].pc \in {"agent", "geocoder", "overpass"} /\ subs'[s].pc = "done") =>
              /\ UNCHANGED <<layers, mapMarkers, legend>>
              /\ Len(subs'[s].msgs) = Len(subs[s].msgs) + 1
              /\ LET m == subs'[s].msgs[Len(subs'[s].msgs)]
                 IN /\ m.sender = "Agent"
                    /\ m.kind = "Error"
                    /\ m.parts \in FailureMessages(subs[s].pc, subs[s].placeName)
        /\ (subs[s].pc \in {"idle", "agent", "geocoder"} /\ subs'[s].pc # subs[s].pc) =>
              UNCHANGED <<layers, mapMarkers, legend>>
      ]_vars

\* C9 witness: the first submission rendered a layer with a marker and the
\* second one ended with "place not found" while that layer is in the store.
C9_Witness ==
    /\ MaxSubs >= 2
    /\ subs[1].pc = "done" /\ FinalMsg(1).kind = "Found"
    /\ subs[2].pc = "done" /\ FinalMsg(2).kind = "Error"
    /\ FinalMsg(2).parts = <<"Place \"", "Paris", "\" not found">>
    /\ \E id \in DOMAIN layers : Owned(layers, id) \cap mapMarkers # {}

\* C10: when renderData aborts with an exception after creating its layer
\* entry, no partially filled layer remains in the store and the legend
\* counts equal the per-category marker sums of the store.
C10_AbortLeavesNoLayer ==
    (last.op = "renderData" /\ last.outcome = "threw")
    => (last.id \notin DOMAIN layers /\ LegendMatches(legend, layers))

\* A submission is being processed from its click to its final message.
InFlight(s) == subs[s].pc \in {"agent", "geocoder", "overpass", "rendered", "threw"}

\* C11: at most one submission is being processed at any time: a second click
\* on Send starts no network call and no render before the previous
\* submission has posted its final Found or Error message.
C11_OneSubmissionAtATime == Cardinality({s \in Subs : InFlight(s)}) <= 1

\* A submission is suspended on a network call (agent, geocoder or Overpass).
Suspended(s) == subs[s].pc \in {"agent", "geocoder", "overpass"}

\* C12: while a submission is suspended on a network call, no step changes
\* the layer store: neither another submission's render nor a legend
\* remove-category or Clear All action.
C12_NoMutationWhileSuspended ==
    [][(\E s \in Subs : Suspended(s) /\ subs'[s].pc = subs[s].pc) => layers' = layers]_vars

\* C13: the legend holds an item for every category of the taxonomy, the
\* fallback category 'poi' included, whatever its count.
C13_LegendCoversTaxonomy == \A c \in CategoryKeys : c \in DOMAIN legend

\* The latest store operation ended with its updateLegend() call.
LegendUpdated ==
    \/ last.op \in {"clearAllLayers", "removeCategoryLayers"}
    \/ (last.op = "removeLayer" /\ last.removed = 1)
    \/ (last.op = "renderData" /\ last.outcome = "returned")

\* C14: after every legend update, every category of the taxonomy whose
\* marker sum in the store is greater than 0 shows its remove button on an
\* active item, and every category whose sum is 0 has an inactive item with
\* the button hidden.
C14_RemovalAffordance ==
    LegendUpdated =>
        \A c \in CategoryKeys :
            IF MarkerSum(layers, c) > 0
            THEN c \in DOMAIN legend /\ legend[c].active /\ legend[c].display = "flex"
            ELSE c \in DOMAIN legend => (~legend[c].active /\ legend[c].display = "none")

\* A legend whose items all show a count and an active flag that no store
\* produced.
StaleLegend ==
    [c \in LegendCategories |-> [count |-> 7, active |-> TRUE, display |-> "flex"]]

\* C15: updateLegend is idempotent and keeps no stale state: applied twice to
\* an unchanged store it gives the legend of the first call, and it gives
\* that same legend whatever the items showed before (the current items, the
\* initial ones, or stale ones).
C15_UpdateLegendIdempotent ==
    LET once == updateLegend(legend, layers)
    IN /\ updateLegend(once, layers) = once
       /\ updateLegend(initLegend, layers) = once
       /\ updateLegend(StaleLegend, layers) = once

\* C15 witness: the legend on screen is out of date for a store that holds a
\* marker (a render aborted after placing it), so that a call of updateLegend
\* has something to overwrite.
C15_Witness ==
    /\ last.op = "renderData" /\ last.outcome = "threw"
    /\ \E id \in DOMAIN layers : Len(layers[id].markers) > 0
    /\ legend # updateLegend(legend, layers)

\* The classification of a feature, as renderData obtains it.
Classified(f) == getCategoryFromTags(FeatureTags(f))

\* The category of the first feature from position i up to position limit
\* that does not classify to 'poi'; 'poi' when there is none.
RECURSIVE FirstNonFallback(_, _, _)
FirstNonFallback(features, i, limit) ==
    IF i > limit THEN "poi"
    ELSE IF Classified(features[i]) # "poi" THEN Classified(features[i])
    ELSE FirstNonFallback(features, i + 1, limit)

\* The colour CATEGORIES configures for a key.
ConfiguredColor(c) ==
    CATEGORIES[CHOOSE i \in 1..Len(CATEGORIES) : CATEGORIES[i][1] = c][2]

\* C16: renderData gives its layer the category of the first element among
\* the first min(n, 10) that does not classify to 'poi', and 'poi' when that
\* prefix has none, whatever the elements from position 11 on; the layer's
\* colour is the colour configured for that category.
C16_DetectedCategory ==
    (last.fn = "renderData" /\ last.returned /\ Len(last.arg) > 0)
    => LET n == Len(last.arg)
           c == FirstNonFallback(last.arg, 1, IF n < 10 THEN n ELSE 10)
           id == last.result.layerId
       IN /\ id \in DOMAIN layers
          /\ layers[id].category = c
          /\ layers[id].color = ConfiguredColor(c)

\* C16 witness: the first ten elements classify to 'poi', the eleventh is a
\* cafe, and the layer rendered for them has category 'poi'.
C16_Witness ==
    /\ last.fn = "renderData" /\ last.returned
    /\ Len(last.arg) >= 11
    /\ \A i \in 1..10 : Classified(last.arg[i]) = "poi"
    /\ Classified(last.arg[11]) = "cafe"
    /\ last.result.layerId \in DOMAIN layers
    /\ layers[last.result.layerId].category = "poi"
    /\ layers[last.result.layerId].color = "#ADB5BD"

\* C17: renderData on an empty result posts "No results found." and changes
\* neither the store, nor the markers on the map, nor the legend; the
\* submission then ends without any Error message.
C17_EmptyResult ==
    [][\A s \in Subs :
        /\ (/\ subs[s].pc = "overpass"
            /\ subs'[s].pc \in {"rendered", "threw"}
            /\ subs'[s].nfeat = 0) =>
              /\ subs'[s].pc = "rendered"
              /\ UNCHANGED <<layers, mapMarkers, legend>>
              /\ subs'[s].msgs = Append(subs[s].msgs,
                                    Msg("Agent", "NoResults", 0, <<"No results found.">>))
        /\ (subs[s].pc = "rendered" /\ subs[s].nfeat = 0 /\ subs'[s].pc = "done") =>
              /\ UNCHANGED <<layers, mapMarkers, legend>>
              /\ \A k \in 1..Len(subs'[s].msgs) : subs'[s].msgs[k].kind # "Error"
              /\ \E k \in 1..Len(subs'[s].msgs) : subs'[s].msgs[k].kind = "NoResults"
      ]_vars

\* C17 witness: a submission with an empty result has ended, "No results
\* found." among its messages, while a layer rendered earlier is in the store
\* with its marker on the map.
C17_Witness ==
    /\ last.op = "renderData" /\ last.outcome = "noresults"
    /\ \E s \in Subs :
          /\ last.sub = s
          /\ subs[s].pc = "done"
          /\ \E k \in 1..Len(subs[s].msgs) : subs[s].msgs[k].kind = "NoResults"
    /\ \E id \in DOMAIN layers : Owned(layers, id) \cap mapMarkers # {}

\* A Polygon whose outer ring, or a MultiPolygon whose first polygon's outer
\* ring, has no vertex.
EmptyOuterRing(geometry) ==
    \/ /\ geometry.type = "Polygon"
       /\ Len(geometry.coordinates) > 0
       /\ Len(geometry.coordinates[1]) = 0
    \/ /\ geometry.type = "MultiPolygon"
       /\ Len(geometry.coordinates) > 0
       /\ Len(geometry.coordinates[1]) > 0
       /\ Len(geometry.coordinates[1][1]) = 0

\* C18: an element whose Polygon or MultiPolygon geometry has an empty outer
\* ring is unplaceable: getCentroid yields no coordinate for it, and a render
\* of a result holding such elements returns, with one marker per other
\* placeable element and every such element counted as skipped.
C18_EmptyRingSkipped ==
    /\ (last.fn = "getCentroid" /\ last.returned /\ EmptyOuterRing(last.arg))
       => last.result.kind = "null"
    /\ (/\ last.fn = "renderData" /\ last.returned
        /\ \E i \in 1..Len(last.arg) : EmptyOuterRing(last.arg[i].geometry))
       => LET empty == {i \in 1..Len(last.arg) : EmptyOuterRing(last.arg[i].geometry)}
              other == {i \in 1..Len(last.arg) :
                          last.arg[i].geometry.type \notin {"Point", "Polygon", "MultiPolygon"}}
              id == last.result.layerId
          IN /\ last.result.outcome = "returned"
             /\ last.result.skippedCount = Cardinality(empty \cup other)
             /\ id \in DOMAIN layers
             /\ Len(layers[id].markers) = Len(last.arg) - Cardinality(empty \cup other)

\* CATEGORIES' `tags` members: <<key, tag key, tag value>> for every category
\* that lists a tag ('poi' lists none).
CategoryTags == <<
    <<"restaurant", "amenity", "restaurant">>, <<"cafe", "amenity", "cafe">>,
    <<"bar", "amenity", "bar">>, <<"bakery", "shop", "bakery">>,
    <<"school", "amenity", "school">>, <<"university", "amenity", "university">>,
    <<"library", "amenity", "library">>, <<"museum", "tourism", "museum">>,
    <<"monument", "historic", "monument">>, <<"viewpoint", "tourism", "viewpoint">>,
    <<"park", "leisure", "park">>, <<"garden", "leisure", "garden">>,
    <<"dog_park", "leisure", "dog_park">>, <<"playground", "leisure", "playground">>,
    <<"sports_centre", "leisure", "sports_centre">>, <<"pitch", "leisure", "pitch">>,
    <<"hospital", "amenity", "hospital">>, <<"pharmacy", "amenity", "pharmacy">>,
    <<"bank", "amenity", "bank">>, <<"supermarket", "shop", "supermarket">>,
    <<"hairdresser", "shop", "hairdresser">>, <<"hotel", "tourism", "hotel">>,
    <<"hostel", "tourism", "hostel">>, <<"station", "railway", "station">>,
    <<"parking", "amenity", "parking">> >>

\* The groups of predicates in their order of priority.
GroupOrder == <<"tourism", "amenity", "shop", "leisure", "historic", "railway">>
GroupRank(key) == CHOOSE g \in 1..Len(GroupOrder) : GroupOrder[g] = key

\* C19: getCategoryFromTags returns 'poi' for null tags and for tags that
\* satisfy no category's (key, value) predicate; otherwise it returns a
\* category whose predicate the tags satisfy, and no satisfied predicate
\* belongs to a group earlier in the order tourism, amenity, shop, leisure,
\* historic, railway.  The call leaves the store, the map and the legend as
\* they were.
C19_FirstMatchingGroup ==
    (last.fn = "getCategoryFromTags" /\ last.returned)
    => LET tags == last.arg
           satisfied == IF tags.kind = "null" THEN {}
                        ELSE {i \in 1..Len(CategoryTags) :
                                TagIs(tags.map, CategoryTags[i][2], CategoryTags[i][3])}
       IN /\ IF satisfied = {} THEN last.result = "poi"
             ELSE \E i \in satisfied :
                     /\ last.result = CategoryTags[i][1]
                     /\ \A j \in satisfied :
                           GroupRank(CategoryTags[i][2]) <= GroupRank(CategoryTags[j][2])
          /\ layers = NoLayers /\ mapMarkers = {} /\ legend = initLegend

\* C19 witness: tags with tourism=museum and amenity=cafe were classified
\* 'museum'.
C19_Witness ==
    /\ last.fn = "getCategoryFromTags" /\ last.returned
    /\ last.arg.kind = "object"
    /\ DOMAIN last.arg.map = {"tourism", "amenity"}
    /\ last.arg.map["tourism"] = "museum" /\ last.arg.map["amenity"] = "cafe"
    /\ last.result = "museum"

\* The coordinate c is the per-axis arithmetic mean of the ring's vertices
\* (c's numbers are fractions <<numerator, denominator>>).
IsMeanOf(c, ring) ==
    /\ c.kind = "coords"
    /\ \A axis \in 1..2 :
          /\ c.lngLat[axis][2] > 0
          /\ c.lngLat[axis][1] * Len(ring) = SumAxis(ring, axis) * c.lngLat[axis][2]

\* C20: getCentroid returns a Point's coordinate unchanged; for a Polygon the
\* mean of the vertices of its outer ring alone; for a MultiPolygon the mean
\* of the vertices of the outer ring of its first polygon alone; and null
\* for every other geometry type.
C20_Centroid ==
    (last.fn = "getCentroid" /\ last.returned)
    => LET g == last.arg
           c == last.result
       IN /\ g.type = "Point" =>
                /\ c.kind = "coords"
                /\ c.lngLat = << <<g.coordinates[1], 1>>, <<g.coordinates[2], 1>> >>
          /\ (/\ g.type = "Polygon"
              /\ Len(g.coordinates) > 0
              /\ Len(g.coordinates[1]) > 0) => IsMeanOf(c, g.coordinates[1])
          /\ (/\ g.type = "MultiPolygon"
              /\ Len(g.coordinates) > 0
              /\ Len(g.coordinates[1]) > 0
              /\ Len(g.coordinates[1][1]) > 0) => IsMeanOf(c, g.coordinates[1][1])
          /\ g.type \notin {"Point", "Polygon", "MultiPolygon"} => c.kind = "null"
          /\ (g.type = "Polygon" /\ g.coordinates = <<Square, Hole>>) =>
                c.lngLat = << <<1, 1>>, <<1, 1>> >>

\* C20 witness: the centroid of a MultiPolygon whose first polygon has the
\* outer ring [[0,0],[0,2],[2,2],[2,0]] and a hole, and which has a second
\* polygon, was computed as [1, 1].
C20_Witness ==
    /\ last.fn = "getCentroid" /\ last.returned
    /\ last.arg.type = "MultiPolygon"
    /\ Len(last.arg.coordinates) = 2
    /\ Len(last.arg.coordinates[1]) = 2
    /\ last.arg.coordinates[1][1] = Square
    /\ last.result.kind = "coords"
    /\ last.result.lngLat = << <<1, 1>>, <<1, 1>> >>

\* How many times a token occurs in a query.
Occurrences(q, token) == Cardinality({i \in 1..Len(q) : q[i] = token})

\* C21: for every raw query without an output-format directive, the query
\* that is sent holds exactly one '[out:json]', directly followed by a
\* timeout clause, and ends in 'out geom 500;'.
C21_BoundedOutput ==
    (/\ last.fn = "fetchOverpass" /\ last.returned
     /\ Occurrences(last.arg, "[out:json]") = 0)
    => LET full == last.result.full
       IN /\ Occurrences(full, "[out:json]") = 1
          /\ \E i \in 1..(Len(full) - 1) :
                full[i] = "[out:json]" /\ full[i + 1] \in {"[timeout:25]", "[timeout:60]"}
          /\ endsWith(full, <<"out geom 500", ";">>)

\* C22: the normalisation is idempotent on its own output: applied to the
\* query it produced, it gives that query again.
C22_NormalizeIdempotent ==
    (last.fn = "fetchOverpass" /\ last.returned)
    => LET again == fullQuery(last.result.full)
       IN /\ again.full = last.result.full
          /\ again.trimmed = last.result.full
          /\ again.directed = last.result.full
          /\ again.geom = last.result.full

\* C22 witness: a raw query that the normalisation trimmed, gave a directive
\* and gave a result limit.
C22_Witness ==
    /\ last.fn = "fetchOverpass" /\ last.returned
    /\ last.result.trimmed # last.arg
    /\ last.result.directed # last.result.trimmed
    /\ last.result.full # last.result.geom
    /\ endsWith(last.result.full, <<")", ";", "out geom 500", ";">>)

\* The query's final statement is 'out body', with or without its semicolon,
\* after a statement end and any whitespace.
RECURSIVE skipWhitespaceBack(_, _)
skipWhitespaceBack(q, i) ==
    IF i >= 1 /\ q[i] \in Whitespace THEN skipWhitespaceBack(q, i - 1) ELSE i

FinalOutBody(q) ==
    LET n == IF endsWith(q, <<"out body", ";">>) THEN Len(q) - 1
             ELSE IF endsWith(q, <<"out body">>) THEN Len(q)
             ELSE 0
    IN /\ n > 0
       /\ LET j == skipWhitespaceBack(q, n - 1) IN j >= 1 /\ q[j] = ";"

\* C23: for every raw query whose final statement is 'out body' (with or
\* without the semicolon, whatever whitespace precedes it), the query that is
\* sent ends in an 'out geom' statement and no terminal 'out body' is left.
C23_TerminalBodyRewritten ==
    (/\ last.fn = "fetchOverpass" /\ last.returned
     /\ FinalOutBody(last.result.trimmed))
    => LET full == last.result.full
       IN /\ (endsWith(full, <<"out geom", ";">>) \/ endsWith(full, <<"out geom 500", ";">>))
          /\ ~FinalOutBody(full)

\* The settings statement a query begins with: its tokens up to the first ';'.
RECURSIVE Directive(_)
Directive(q) ==
    IF q = <<>> \/ q[1] = ";" THEN <<>> ELSE <<q[1]>> \o Directive(Tail(q))

\* C24: a trimmed raw query that does not begin with '[out:json]' gets
\* '[out:json][timeout:25];' in front of it; one that begins with
\* '[out:json]' whose directive has no timeout clause gets '[timeout:25]'
\* directly after that '[out:json]' and no second directive; in every case
\* the result begins with '[out:json]' and its directive holds a timeout.
C24_DirectiveWithTimeout ==
    (last.fn = "fetchOverpass" /\ last.returned)
    => LET raw == last.result.trimmed
           out == last.result.directed
       IN /\ ~startsWith(raw, "[out:json]") =>
                out = <<"[out:json]", "[timeout:25]", ";">> \o raw
          /\ (startsWith(raw, "[out:json]") /\ ~includesTimeout(Directive(raw))) =>
                /\ out = <<"[out:json]", "[timeout:25]">> \o Tail(raw)
                /\ Occurrences(out, "[out:json]") = Occurrences(raw, "[out:json]")
          /\ startsWith(out, "[out:json]")
          /\ includesTimeout(Directive(out))

\* C25: every '{{bbox}}' of the agent's query is replaced by the geocoder's
\* bounding box [min-lat, max-lat, min-lon, max-lon] rearranged to
\* min-lat,min-lon,max-lat,max-lon, everything else is kept, and neither the
\* substituted query nor the query that is sent holds a placeholder.
C25_BboxSubstituted ==
    (last.fn = "replaceAll" /\ last.returned)
    => LET template == last.arg.query
           bb == last.arg.boundingbox
           out == last.result
           text == <<bb[1], ",", bb[3], ",", bb[2], ",", bb[4]>>
           at == {i \in 1..Len(template) : template[i] = "{{bbox}}"}
           before(i) == Cardinality({j \in at : j < i})
       IN /\ Occurrences(out, "{{bbox}}") = 0
          /\ Occurrences(fullQuery(out).full, "{{bbox}}") = 0
          /\ Len(out) = Len(template) + (Len(text) - 1) * Cardinality(at)
          /\ \A i \in 1..Len(template) :
                LET o == i + (Len(text) - 1) * before(i)
                IN IF i \in at THEN SubSeq(out, o, o + Len(text) - 1) = text
                   ELSE out[o] = template[i]

\* C25 witness: a query with two placeholders was given the bounding box
\* [-1, 1, -2, 2] and holds "-1,-2,1,2" twice.
C25_Witness ==
    /\ last.fn = "replaceAll" /\ last.returned
    /\ Occurrences(last.arg.query, "{{bbox}}") = 2
    /\ last.arg.boundingbox = <<"-1", "1", "-2", "2">>
    /\ Cardinality({i \in 1..(Len(last.result) - 6) :
                      SubSeq(last.result, i, i + 6) = <<"-1", ",", "-2", ",", "1", ",", "2">>}) = 2

\* C26: the markers attached to the map are exactly the markers the layers
\* in the store own, and no marker is owned by two layers.
C26_MarkersOwned ==
    /\ mapMarkers = UNION {Owned(layers, id) : id \in DOMAIN layers}
    /\ \A i, j \in DOMAIN layers : i # j => Owned(layers, i) \cap Owned(layers, j) = {}

\* Submission s runs renderData in this step.
RenderStep(s) == subs[s].pc = "overpass" /\ subs'[s].pc \in {"rendered", "threw"}

\* C27: a render pass is one uninterrupted step: the step in which a
\* submission's layer entry appears is the step of that submission's
\* renderData alone; when the call returns on a non-empty result, the layer
\* holds a marker for every element that was not skipped and the legend
\* shows the store's counts at the end of that same step; and no other
\* handler changes the store before the submission's continuation has run.
C27_RenderAtomic ==
    [][/\ \A s \in Subs :
            RenderStep(s) =>
                /\ \A t \in Subs \ {s} : subs'[t] = subs[t]
                /\ (DOMAIN layers') \ (DOMAIN layers) \subseteq {last'.id}
                /\ (subs'[s].pc = "rendered" /\ subs'[s].nfeat > 0) =>
                      /\ last'.id \in DOMAIN layers'
                      /\ Len(layers'[last'.id].markers) = last'.n - last'.skippedCount
                      /\ LegendMatches(legend', layers')
       /\ (DOMAIN layers' # DOMAIN layers) =>
              \/ \E s \in Subs : RenderStep(s)
              \/ NoMicrotaskPending
       /\ \A id \in (DOMAIN layers') \ (DOMAIN layers) : \E s \in Subs : RenderStep(s)
      ]_vars

\* C27 witness: one submission has just rendered a layer with two markers
\* and waits for its continuation while another one is suspended on its
\* Overpass request.
C27_Witness ==
    /\ last.op = "renderData" /\ last.outcome = "returned" /\ last.n >= 2
    /\ last.id \in DOMAIN layers
    /\ Len(layers[last.id].markers) >= 2
    /\ \E s, t \in Subs :
          s # t /\ last.sub = s /\ subs[s].pc = "rendered" /\ subs[t].pc = "overpass"

\* The final messages (Found or Error) a submission has posted.
FinalMessages(s) ==
    {k \in 1..Len(subs[s].msgs) : subs[s].msgs[k].kind \in {"Found", "Error"}}

\* C28: every submission eventually ends, whatever other submissions, Clear
\* All and remove-category clicks do meanwhile; once it has ended it has
\* posted exactly one final message, Found or Error, as its last message, and
\* none before; and a submission in flight only moves forward: it is never
\* taken back or dropped.
C28_OneFinalMessage ==
    /\ \A s \in Subs : (subs[s].pc = "agent") ~> (subs[s].pc = "done")
    /\ [](\A s \in Subs :
            IF subs[s].pc = "done"
            THEN Cardinality(FinalMessages(s)) = 1 /\ Len(subs[s].msgs) \in FinalMessages(s)
            ELSE FinalMessages(s) = {})
    /\ [][\A s \in Subs :
            /\ subs[s].pc # "idle" => subs'[s].pc # "idle"
            /\ subs[s].pc = "done" => subs'[s] = subs[s]
            /\ Len(subs'[s].msgs) >= Len(subs[s].msgs)
            /\ SubSeq(subs'[s].msgs, 1, Len(subs[s].msgs)) = subs[s].msgs]_vars

\* C28 witness: both submissions have ended, one with Found and one with
\* Error, and the store was cleared by Clear All after a render.
C28_Witness ==
    /\ MaxSubs >= 2
    /\ subs[1].pc = "done" /\ subs[2].pc = "done"
    /\ {FinalMsg(1).kind, FinalMsg(2).kind} = {"Found", "Error"}
    /\ last.op = "clearAllLayers" /\ last.removed >= 1

====
